---------------------------- MODULE Spec2Model ----------------------------
(***************************************************************************)
(* The scripted support chat widget in its two skins:                      *)
(*   "nibbly"  : src/src/components/ChatBot.tsx (drone delivery, floating  *)
(*               widget with open / minimize state)                        *)
(*   "generic" : src/unnamed/part_000 (full-page "Customer Support")       *)
(*                                                                         *)
(* A JavaScript string is modelled as the sequence of its characters, each *)
(* character a one-character TLA+ string, so that toLowerCase, trim,       *)
(* includes and the order-number regular expression are computed and not   *)
(* assumed.  Reply texts are opaque strings (only their identity matters); *)
(* the emoji of the source texts are left out.                             *)
(***************************************************************************)
EXTENDS Integers, Sequences, FiniteSets, TLC

VARIABLES
    variant,      \* which of the two components is mounted
    isOpen,       \* useState(false)   (nibbly; the generic page is always shown)
    isMinimized,  \* useState(false)
    messages,     \* useState<Message[]>([greeting])
    inputValue,   \* useState("")
    isTyping,     \* useState(false)
    timers,       \* pending setTimeout callbacks, in scheduling order
    now           \* Date.now(), in milliseconds

vars == <<variant, isOpen, isMinimized, messages, inputValue, isTyping, timers, now>>

-----------------------------------------------------------------------------
(* Bounds of the model *)

\* longest conversation explored (greeting included)
MaxMessages == 5
\* the clock is explored up to T0 + MaxClock
MaxClock == 3002
\* clock value at construction; any real Date.now() is far above the greeting id
T0 == 10
\* how many single milliseconds are explored after each multiple of the delay
MaxJitter == 1
\* an input of the resolver is the concatenation of at most MaxParts fragments
MaxParts == 2

\* delay of the simulated bot reply, setTimeout(..., 1500)
TIMEOUT_MS == 1500

-----------------------------------------------------------------------------
(* JavaScript strings *)

UpperCaseLetters ==
    <<"A","B","C","D","E","F","G","H","I","J","K","L","M",
      "N","O","P","Q","R","S","T","U","V","W","X","Y","Z">>

LowerCaseLetters ==
    <<"a","b","c","d","e","f","g","h","i","j","k","l","m",
      "n","o","p","q","r","s","t","u","v","w","x","y","z">>

Digits == {"0","1","2","3","4","5","6","7","8","9"}

WhiteSpace == {" "}

LowerChar(c) ==
    IF \E i \in 1..26 : UpperCaseLetters[i] = c
    THEN LowerCaseLetters[CHOOSE i \in 1..26 : UpperCaseLetters[i] = c]
    ELSE c

UpperChar(c) ==
    IF \E i \in 1..26 : LowerCaseLetters[i] = c
    THEN UpperCaseLetters[CHOOSE i \in 1..26 : LowerCaseLetters[i] = c]
    ELSE c

\* String.prototype.toLowerCase
toLowerCase(s) == [i \in 1..Len(s) |-> LowerChar(s[i])]

\* String.prototype.toUpperCase
toUpperCase(s) == [i \in 1..Len(s) |-> UpperChar(s[i])]

\* String.prototype.includes: key occurs in s as a contiguous substring
includes(s, key) ==
    \E i \in 0..(Len(s) - Len(key)) : SubSeq(s, i + 1, i + Len(key)) = key

\* String.prototype.trim: leading and trailing white space removed
trim(s) ==
    LET inked == {i \in 1..Len(s) : s[i] \notin WhiteSpace}
    IN  IF inked = {} THEN <<>>
        ELSE SubSeq(s, CHOOSE i \in inked : \A j \in inked : i <= j,
                       CHOOSE i \in inked : \A j \in inked : j <= i)

\* orderMatch with a slip: the rightmost match instead of the leftmost
orderMatchLast(message) ==
    LET hits == {i \in 1..(Len(message) - 3) :
                    /\ message[i] \in {"n", "N"}
                    /\ message[i + 1] \in Digits
                    /\ message[i + 2] \in Digits
                    /\ message[i + 3] \in Digits}
    IN  IF hits = {} THEN <<>>
        ELSE LET last == CHOOSE i \in hits : \A j \in hits : j <= i
             IN  SubSeq(message, last, last + 3)

\* message.match(/n\d{3}/i): the leftmost match, <<>> for null
orderMatch(message) ==
    LET hits == {i \in 1..(Len(message) - 3) :
                    /\ message[i] \in {"n", "N"}
                    /\ message[i + 1] \in Digits
                    /\ message[i + 2] \in Digits
                    /\ message[i + 3] \in Digits}
    IN  IF hits = {} THEN <<>>
        ELSE LET first == CHOOSE i \in hits : \A j \in hits : i <= j
             IN  SubSeq(message, first, first + 3)

-----------------------------------------------------------------------------
(* Replies.  A reply is the text of a string literal, or of a template     *)
(* literal together with the values substituted into it.                   *)

Reply(template, orderNum, address, eta, status) ==
    [template |-> template, orderNum |-> orderNum,
     address |-> address, eta |-> eta, status |-> status]

Literal(text) == Reply(text, <<>>, "", 0, "")

\* const droneLocations (keys), nibbly
droneKeys == { <<"N","0","0","1">>, <<"N","0","0","2">>, <<"N","0","0","3">> }

\* const droneLocations (values), nibbly
droneLocations(orderNum) ==
    CASE orderNum = <<"N","0","0","1">> ->
           [address |-> "Near Washington Square Park", eta |-> 4, status |-> "In Transit"]
      [] orderNum = <<"N","0","0","2">> ->
           [address |-> "Above Union Square", eta |-> 7, status |-> "In Transit"]
      [] orderNum = <<"N","0","0","3">> ->
           [address |-> "Central Park South", eta |-> 12, status |-> "Preparing for delivery"]

foundTemplate ==
    "Found your order ${orderNum}!\n\nCurrent location: ${droneData.location.address}\nETA: ${droneData.eta} minutes\nStatus: ${droneData.status}\n\nYour drone is flying at 400ft altitude for safety. You'll get a notification when it's 1 minute away!"

notFoundTemplate ==
    "I couldn't find order ${orderNum}. Please double-check your order number or contact us if you think this is an error."

\* const botResponses of the nibbly component, in Object.entries order
botResponsesNibbly == <<
    [key |-> <<"t","r","a","c","k"," ","m","y"," ","o","r","d","e","r">>,
     response |-> "I'll help you track your Nibbly drone delivery! Please provide your order number (format: N001, N002, etc.) and I'll show you exactly where your drone is in Lower Manhattan."],
    [key |-> <<"w","r","o","n","g"," ","o","r","d","e","r">>,
     response |-> "Oh no! I'm sorry your order isn't correct. Please provide your order number and tell me what's wrong - we'll get this fixed right away and send out a replacement drone if needed."],
    [key |-> <<"I"," ","n","e","e","d"," ","h","e","l","p">>,
     response |-> "Hi! I'm here to help with your Nibbly drone delivery. I can track your drone's location, estimate delivery time, help with incorrect orders, or answer any questions about our service in Lower Manhattan!"],
    [key |-> <<"h","e","l","l","o">>,
     response |-> "Hello! Welcome to Nibbly - Lower Manhattan's fastest drone delivery service! How can I help you today?"],
    [key |-> <<"h","i">>,
     response |-> "Hi there! Thanks for choosing Nibbly for your delivery needs. I can track your drone, help with order issues, or answer any questions!"],
    [key |-> <<"r","e","f","u","n","d">>,
     response |-> "I understand you'd like a refund. For drone deliveries, we offer full refunds if there's an issue with your order. Please provide your order number and I'll process this for you."],
    [key |-> <<"c","a","n","c","e","l"," ","o","r","d","e","r">>,
     response |-> "I can help cancel your order if the drone hasn't taken off yet. Please provide your order number and I'll check if we can still cancel it."],
    [key |-> <<"d","e","l","i","v","e","r","y"," ","t","i","m","e">>,
     response |-> "Our drones typically deliver within 15 minutes anywhere in Lower Manhattan! Weather conditions may add a few extra minutes for safety."],
    [key |-> <<"l","o","c","a","t","i","o","n">>,
     response |-> "We serve all of Lower Manhattan from Battery Park to 14th Street. Our drones launch from our hub near the Brooklyn Bridge and can reach you super quickly!"],
    [key |-> <<"h","o","w"," ","i","t"," ","w","o","r","k","s">>,
     response |-> "Simple! Order through our app, our drone picks up your items from local partners, and flies directly to your location. You'll get real-time tracking the whole way!"] >>

\* const botResponses of the generic component, in Object.entries order
botResponsesGeneric == <<
    [key |-> <<"t","r","a","c","k"," ","m","y"," ","o","r","d","e","r">>,
     response |-> "I'd be happy to help you track your order! Please provide your order number (usually starts with #) and I'll look it up for you right away."],
    [key |-> <<"b","i","l","l","i","n","g"," ","q","u","e","s","t","i","o","n">>,
     response |-> "I can help with billing inquiries. Are you looking to update payment information, view invoices, or resolve a billing issue? Please let me know more details."],
    [key |-> <<"I"," ","n","e","e","d"," ","h","e","l","p">>,
     response |-> "I'm here to help! I can assist with order tracking, billing questions, account issues, product information, returns, and more. What specific area can I help you with today?"],
    [key |-> <<"h","e","l","l","o">>,
     response |-> "Hello! Welcome to our customer support. I'm here to help you with any questions or concerns. How can I assist you today?"],
    [key |-> <<"h","i">>,
     response |-> "Hi there! Thanks for reaching out. I'm your customer service assistant. What can I help you with today?"],
    [key |-> <<"r","e","f","u","n","d">>,
     response |-> "I understand you're looking for information about refunds. Our refund policy allows returns within 30 days of purchase. Could you please provide your order number so I can check the details for you?"],
    [key |-> <<"r","e","t","u","r","n">>,
     response |-> "I can help you with returns! Items can be returned within 30 days in original condition. Do you have your order number handy? This will help me process your return request faster."],
    [key |-> <<"c","a","n","c","e","l"," ","o","r","d","e","r">>,
     response |-> "I can help you cancel your order if it hasn't shipped yet. Please provide your order number and I'll check the status right away."],
    [key |-> <<"s","h","i","p","p","i","n","g">>,
     response |-> "I can provide shipping information! Are you asking about shipping costs, delivery times, or tracking an existing shipment? Please let me know your specific question."],
    [key |-> <<"a","c","c","o","u","n","t">>,
     response |-> "I can help with account-related questions. Are you having trouble logging in, need to update your information, or have other account concerns?"],
    [key |-> <<"p","a","s","s","w","o","r","d">>,
     response |-> "If you're having trouble with your password, I can guide you through resetting it. Please check your email for a password reset link, or let me know if you need me to send another one."] >>

botResponses(v) == IF v = "nibbly" THEN botResponsesNibbly ELSE botResponsesGeneric

defaultNibbly ==
    "I'm here to help with your Nibbly drone delivery! I can track your order, help with issues, or answer questions. What can I assist you with?"

defaultGeneric ==
    "I understand your concern. Let me connect you with the right information. Could you provide more details about your specific issue? This will help me assist you better."


-----------------------------------------------------------------------------
(* getBotResponse *)

\* for (const [key, response] of Object.entries(botResponses))
\*   if (message.includes(key)) return response;
\* the index of the entry that returns, 0 when the loop falls through
firstEntry(table, message) ==
    LET hits == {i \in 1..Len(table) : includes(message, table[i].key)}
    IN  IF hits = {} THEN 0 ELSE CHOOSE i \in hits : \A j \in hits : i <= j

\* the order-number branch of the nibbly getBotResponse; orderMatch is not null
orderReply(orderMatched) ==
    LET orderNum == toUpperCase(orderMatched)
    IN  IF orderNum \in droneKeys
        THEN Reply(foundTemplate, orderNum, droneLocations(orderNum).address,
                   droneLocations(orderNum).eta, droneLocations(orderNum).status)
        ELSE Reply(notFoundTemplate, orderNum, "", 0, "")

\* the keyword checks and the default of the nibbly getBotResponse
keywordReplyNibbly(message) ==
    IF /\ includes(message, <<"d","r","o","n","e">>)
       /\ \/ includes(message, <<"w","h","e","r","e">>)
          \/ includes(message, <<"l","o","c","a","t","i","o","n">>)
    THEN Literal("To track your drone, please provide your order number (like N001). I'll show you exactly where it is and when it will arrive!")
    ELSE IF \/ includes(message, <<"e","t","a">>)
            \/ includes(message, <<"w","h","e","n">>)
            \/ includes(message, <<"a","r","r","i","v","e">>)
    THEN Literal("Delivery times depend on your location in Lower Manhattan. Please share your order number and I'll give you the exact ETA!")
    ELSE IF includes(message, <<"t","h","a","n","k">>)
    THEN Literal("You're very welcome! Enjoy your Nibbly delivery! Anything else I can help with?")
    ELSE IF \/ includes(message, <<"b","y","e">>)
            \/ includes(message, <<"g","o","o","d","b","y","e">>)
    THEN Literal("Thanks for using Nibbly! Have a great day and don't hesitate to reach out if you need anything!")
    ELSE Literal(defaultNibbly)

\* keywordReplyGeneric with a slip: the "thank" check is missing
keywordReplyGenericNoThanks(message) ==
    IF /\ includes(message, <<"o","r","d","e","r">>)
       /\ includes(message, <<"s","t","a","t","u","s">>)
    THEN Literal("I can help you check your order status. Please provide your order number and I'll look it up immediately.")
    ELSE IF \/ includes(message, <<"c","a","n","c","e","l">>)
            \/ includes(message, <<"c","a","n","c","e","l","l","e","d">>)
    THEN Literal("I understand you want to cancel something. Could you specify if it's an order, subscription, or service? I'll help you with the cancellation process.")
    ELSE IF \/ includes(message, <<"b","y","e">>)
            \/ includes(message, <<"g","o","o","d","b","y","e">>)
    THEN Literal("Thank you for contacting us! Have a wonderful day and don't hesitate to reach out if you need any further assistance.")
    ELSE Literal(defaultGeneric)

\* the keyword checks and the default of the generic getBotResponse
keywordReplyGeneric(message) ==
    IF /\ includes(message, <<"o","r","d","e","r">>)
       /\ includes(message, <<"s","t","a","t","u","s">>)
    THEN Literal("I can help you check your order status. Please provide your order number and I'll look it up immediately.")
    ELSE IF \/ includes(message, <<"c","a","n","c","e","l">>)
            \/ includes(message, <<"c","a","n","c","e","l","l","e","d">>)
    THEN Literal("I understand you want to cancel something. Could you specify if it's an order, subscription, or service? I'll help you with the cancellation process.")
    ELSE IF includes(message, <<"t","h","a","n","k">>)
    THEN Literal("You're very welcome! I'm glad I could help. Is there anything else I can assist you with today?")
    ELSE IF \/ includes(message, <<"b","y","e">>)
            \/ includes(message, <<"g","o","o","d","b","y","e">>)
    THEN Literal("Thank you for contacting us! Have a wonderful day and don't hesitate to reach out if you need any further assistance.")
    ELSE Literal(defaultGeneric)

\* getBotResponseNibbly with a slip: the table is searched before the order number
getBotResponseNibblyTableFirst(userMessage) ==
    LET message == toLowerCase(userMessage)
        matched == orderMatch(message)
        entry   == firstEntry(botResponsesNibbly, message)
    IN  IF entry # 0 THEN Literal(botResponsesNibbly[entry].response)
        ELSE IF matched # <<>> THEN orderReply(matched)
        ELSE keywordReplyNibbly(message)

\* getBotResponse of the nibbly component
getBotResponseNibbly(userMessage) ==
    LET message == toLowerCase(userMessage)
        matched == orderMatch(message)
        entry   == firstEntry(botResponsesNibbly, message)
    IN  IF matched # <<>> THEN orderReply(matched)
        ELSE IF entry # 0 THEN Literal(botResponsesNibbly[entry].response)
        ELSE keywordReplyNibbly(message)

\* getBotResponse of the generic component
getBotResponseGeneric(userMessage) ==
    LET message == toLowerCase(userMessage)
        entry   == firstEntry(botResponsesGeneric, message)
    IN  IF entry # 0 THEN Literal(botResponsesGeneric[entry].response)
        ELSE keywordReplyGeneric(message)

getBotResponse(v, userMessage) ==
    IF v = "nibbly" THEN getBotResponseNibbly(userMessage)
    ELSE getBotResponseGeneric(userMessage)

-----------------------------------------------------------------------------
(* The component state *)

Variants == {"nibbly", "generic"}

\* handleSendMessage() called without its optional argument.  The value is a
\* one-element sequence that is no string of characters.
undefined == <<"undefined">>

\* const quickActions (the query of each entry)
quickActions(v) ==
    IF v = "nibbly"
    THEN << <<"t","r","a","c","k"," ","m","y"," ","o","r","d","e","r">>,
            <<"w","r","o","n","g"," ","o","r","d","e","r">>,
            <<"I"," ","n","e","e","d"," ","h","e","l","p">> >>
    ELSE << <<"t","r","a","c","k"," ","m","y"," ","o","r","d","e","r">>,
            <<"b","i","l","l","i","n","g"," ","q","u","e","s","t","i","o","n">>,
            <<"I"," ","n","e","e","d"," ","h","e","l","p">> >>

\* the seeded greeting, useState<Message[]>([{ id: '1', ... }])
\* ids are kept as numbers: Number.prototype.toString is injective
greeting(v) ==
    [id |-> 1,
     text |-> Literal(IF v = "nibbly"
                      THEN "Hi! I'm your Nibbly support assistant. I can help track your drone delivery, handle order issues, or answer questions about our service in Lower Manhattan!"
                      ELSE "Hello! I'm your customer service assistant. I'm here to help with orders, billing, returns, and any other questions you might have. How can I assist you today?"),
     sender |-> "bot",
     timestamp |-> T0]

Init ==
    /\ variant \in Variants
    /\ isOpen = (variant = "generic")
    /\ isMinimized = FALSE
    /\ messages = << greeting(variant) >>
    /\ inputValue = <<>>
    /\ isTyping = FALSE
    /\ timers = <<>>
    /\ now = T0

\* what is rendered: the nibbly widget shows its body only when open and not
\* minimized; the generic page always shows it
bodyRendered == variant = "generic" \/ (isOpen /\ ~isMinimized)

\* <Input disabled={isTyping} />
inputEnabled == bodyRendered /\ ~isTyping

\* <Button disabled={!inputValue.trim() || isTyping} />
sendEnabled == bodyRendered /\ ~(trim(inputValue) = <<>> \/ isTyping)

\* the quick-action buttons carry no disabled attribute
quickActionEnabled == bodyRendered

\* const textToSend = messageText || inputValue.trim();
textToSend(messageText, buffer) ==
    IF messageText = undefined \/ messageText = <<>> THEN trim(buffer) ELSE messageText

\* the state handleSendMessage(messageText) leaves when it runs with
\* inputValue = buffer
afterSend(messageText, buffer) ==
    LET text == textToSend(messageText, buffer)
    IN  IF text = <<>>
        THEN [messages |-> messages, inputValue |-> buffer,
              isTyping |-> isTyping, timers |-> timers]
        ELSE [messages |-> Append(messages, [id |-> now, text |-> text,
                                             sender |-> "user", timestamp |-> now]),
              inputValue |-> <<>>,
              isTyping |-> TRUE,
              timers |-> Append(timers, [due |-> now + TIMEOUT_MS, textToSend |-> text])]

handleSendMessage(messageText) ==
    LET after == afterSend(messageText, inputValue)
    IN  /\ messages' = after.messages
        /\ inputValue' = after.inputValue
        /\ isTyping' = after.isTyping
        /\ timers' = after.timers
        /\ UNCHANGED <<variant, isOpen, isMinimized, now>>

\* the model explores a submission only while its reply still fits the bounds
Explored ==
    /\ Len(messages) + Len(timers) + 2 <= MaxMessages
    /\ now + TIMEOUT_MS + MaxJitter <= T0 + MaxClock

\* onChange={(e) => setInputValue(e.target.value)}
onChange(value) ==
    /\ inputEnabled
    /\ inputValue' = value
    /\ UNCHANGED <<variant, isOpen, isMinimized, messages, isTyping, timers, now>>

handleKeyPress(key, shiftKey) ==
    /\ inputEnabled
    /\ Explored
    /\ IF key = "Enter" /\ ~shiftKey
       THEN handleSendMessage(undefined)
       ELSE UNCHANGED vars

\* the send button, onClick={() => handleSendMessage()}
clickSend ==
    /\ sendEnabled
    /\ Explored
    /\ handleSendMessage(undefined)

\* a quick-action button, onClick={() => handleSendMessage(action.query)}
clickQuickAction(index) ==
    /\ quickActionEnabled
    /\ Explored
    /\ handleSendMessage(quickActions(variant)[index])

\* the head timer has reached its time
timerDue == timers # <<>> /\ now >= Head(timers).due

\* timerFires with a slip: the callback resolves the input buffer as it is
\* when the timer runs, not the text captured at submit time
timerFiresReadsInput ==
    /\ timerDue
    /\ messages' = Append(messages,
                          [id |-> now + 1,
                           text |-> getBotResponse(variant, trim(inputValue)),
                           sender |-> "bot",
                           timestamp |-> now])
    /\ isTyping' = FALSE
    /\ timers' = Tail(timers)
    /\ UNCHANGED <<variant, isOpen, isMinimized, inputValue, now>>

\* timerFires with a slip: the callback appends to the messages its closure
\* captured at submit time (setMessages([...messages, botResponse])), which
\* lack the user message appended by the same handler
timerFiresStaleMessages ==
    /\ timerDue
    /\ messages' = Append(SubSeq(messages, 1, Len(messages) - 1),
                          [id |-> now + 1,
                           text |-> getBotResponse(variant, Head(timers).textToSend),
                           sender |-> "bot",
                           timestamp |-> now])
    /\ isTyping' = FALSE
    /\ timers' = Tail(timers)
    /\ UNCHANGED <<variant, isOpen, isMinimized, inputValue, now>>

\* the callback of setTimeout(..., 1500); equal delays run in scheduling order
timerFires ==
    /\ timerDue
    /\ messages' = Append(messages,
                          [id |-> now + 1,
                           text |-> getBotResponse(variant, Head(timers).textToSend),
                           sender |-> "bot",
                           timestamp |-> now])
    /\ isTyping' = FALSE
    /\ timers' = Tail(timers)
    /\ UNCHANGED <<variant, isOpen, isMinimized, inputValue, now>>

\* the floating button, onClick={() => setIsOpen(true)}
openWidget ==
    /\ variant = "nibbly"
    /\ ~isOpen
    /\ isOpen' = TRUE
    /\ UNCHANGED <<variant, isMinimized, messages, inputValue, isTyping, timers, now>>

\* closeWidget with a slip: closing the widget also restores its full size
closeWidgetResetsMinimized ==
    /\ variant = "nibbly"
    /\ isOpen
    /\ isOpen' = FALSE
    /\ isMinimized' = FALSE
    /\ UNCHANGED <<variant, messages, inputValue, isTyping, timers, now>>

\* closeWidget with a slip: closing the widget abandons the pending replies
closeWidgetCancels ==
    /\ variant = "nibbly"
    /\ isOpen
    /\ isOpen' = FALSE
    /\ timers' = <<>>
    /\ UNCHANGED <<variant, isMinimized, messages, inputValue, isTyping, now>>

\* the X button, onClick={() => setIsOpen(false)}
closeWidget ==
    /\ variant = "nibbly"
    /\ isOpen
    /\ isOpen' = FALSE
    /\ UNCHANGED <<variant, isMinimized, messages, inputValue, isTyping, timers, now>>

\* the minimize button, onClick={() => setIsMinimized(!isMinimized)}
toggleMinimize ==
    /\ variant = "nibbly"
    /\ isOpen
    /\ isMinimized' = ~isMinimized
    /\ UNCHANGED <<variant, isOpen, messages, inputValue, isTyping, timers, now>>

\* the clock advances, by one millisecond or by the delay
tick(dt) ==
    /\ now + dt <= T0 + MaxClock
    /\ dt = 1 => ((now + 1 - T0) % TIMEOUT_MS) <= MaxJitter
    /\ now' = now + dt
    /\ UNCHANGED <<variant, isOpen, isMinimized, messages, inputValue, isTyping, timers>>

\* what the user types in the conversation specification
Drafts == { <<>>, <<" ">>, <<" ","h","i"," ">> }

Keys == {"Enter", "a"}

Next ==
    \/ \E value \in Drafts : onChange(value)
    \/ \E key \in Keys, shiftKey \in BOOLEAN : handleKeyPress(key, shiftKey)
    \/ clickSend
    \/ \E index \in 1..3 : clickQuickAction(index)
    \/ timerFires
    \/ openWidget
    \/ closeWidget
    \/ toggleMinimize
    \/ \E dt \in {1, TIMEOUT_MS} : tick(dt)

Spec == Init /\ [][Next]_vars

\* The event loop runs a due timer callback and the clock keeps advancing.
\* The first conjunct is WF_vars(timerFires) with its ENABLED written out.
FairSpec ==
    /\ Spec
    /\ ([]<>(~timerDue) \/ []<><<timerFires>>_vars)
    /\ WF_vars(\E dt \in {1, TIMEOUT_MS} : tick(dt))

-----------------------------------------------------------------------------
(* submit(text) called directly: handleSendMessage with any argument *)

submit(messageText) ==
    /\ Explored
    /\ handleSendMessage(messageText)

NextSubmit ==
    \/ Next
    \/ \E messageText \in Drafts \cup {undefined} : submit(messageText)

SpecSubmit == Init /\ [][NextSubmit]_vars

-----------------------------------------------------------------------------
(* The resolver on a richer set of inputs: one typed message and its reply *)

Fragments == {
    <<" ">>,
    <<"N","0","0","1">>,
    <<"n","0","0","1">>,
    <<"n","9","9","9">>,
    <<"h","e","l","l","o">>,
    <<"h","i">>,
    <<"I"," ","n","e","e","d"," ","h","e","l","p">>,
    <<"s","h","i","p","p","i","n","g">>,
    <<"t","h","a","n","k">>,
    <<"o","r","d","e","r">>,
    <<"s","t","a","t","u","s">>,
    <<"d","r","o","n","e">>,
    <<"w","h","e","r","e">>,
    <<"x","y","z","z","y"," ","c","o","m","p","l","e","t","e","l","y"," ",
      "u","n","r","e","l","a","t","e","d"," ","t","e","x","t">> }

RECURSIVE Concat(_)
Concat(parts) == IF parts = <<>> THEN <<>> ELSE Head(parts) \o Concat(Tail(parts))

Inputs == { Concat(parts) : parts \in UNION { [1..n -> Fragments] : n \in 0..MaxParts } }

NextResolve ==
    \/ (Len(messages) = 1 /\ inputValue = <<>> /\ \E value \in Inputs : onChange(value))
    \/ handleKeyPress("Enter", FALSE)
    \/ timerFires
    \/ openWidget
    \/ tick(TIMEOUT_MS)

SpecResolve == Init /\ [][NextResolve]_vars

-----------------------------------------------------------------------------
(* Properties of the conversation *)

NumFrom(sender) == Cardinality({k \in 1..Len(messages) : messages[k].sender = sender})

\* the part of the state a submission can change
current ==
    [messages |-> messages, inputValue |-> inputValue,
     isTyping |-> isTyping, timers |-> timers]

\* C1: at most one delayed bot reply is outstanding in every reachable state:
\* after an accepted submission no further one is accepted until its reply
\* has been appended.
C1_AtMostOnePendingReply == Len(timers) <= 1

\* C2: every accepted submission has appended one user message and appends one
\* bot message, and the typing flag is true in every state in which a reply is
\* still to come (between the user append and the bot append).
C2_TypingUntilReply ==
    /\ NumFrom("user") = (NumFrom("bot") - 1) + Len(timers)
    /\ timers # <<>> => isTyping

\* empty or white space only
IsBlank(s) == \A i \in 1..Len(s) : s[i] \in WhiteSpace

\* a step that leaves the conversation as long as it is or appends a user message
NoAppendOrUserAppend ==
    \/ Len(messages') = Len(messages)
    \/ /\ Len(messages') = Len(messages) + 1
       /\ messages'[Len(messages')].sender = "user"

\* C3: submit(s) with s empty or white space only is a no-op (no message, the
\* typing flag unchanged, no reply scheduled), both when s is the content of
\* the input buffer and when s is the explicit argument of submit.  (An
\* explicit empty argument makes the code fall back to the buffer, so that
\* call is judged by the buffer it then reads.)
C3_BlankSubmitIsNoOp ==
    [][\A s \in {d \in Drafts : IsBlank(d)} :
          (/\ NoAppendOrUserAppend
           /\ \/ ((s # <<>> \/ IsBlank(inputValue)) /\ submit(s))
              \/ (inputValue = s /\ (handleKeyPress("Enter", FALSE) \/ clickSend)))
          => UNCHANGED <<messages, isTyping, timers>>]_vars

\* C4: the message ids of the conversation are pairwise distinct and strictly
\* increasing in creation order.
C4_IdsStrictlyIncreasing ==
    \A i, j \in 1..Len(messages) : i < j => messages[i].id < messages[j].id

\* C5: every accepted submission is eventually followed by the append of its
\* bot reply, whatever is done to the widget (close, reopen, minimize) while
\* the reply is pending: the k-th user message leads to the k-th bot reply.
C5_ReplyAlwaysFires ==
    \A k \in 1..(MaxMessages + 1) :
        (NumFrom("user") >= k) ~> (NumFrom("bot") >= k + 1)

\* C5 witness: a reply is due while the widget is closed and minimized
C5_DueWhileClosed ==
    /\ variant = "nibbly"
    /\ ~isOpen
    /\ isMinimized
    /\ timers # <<>>
    /\ now >= Head(timers).due

\* C6: from every reachable state a quick-action button and the submission of
\* the same string through the input (typed, then Enter) leave the same
\* conversation, typing flag, input buffer and pending replies, and a blocked
\* one leaves the state as it is.
C6_QuickActionEqualsInput ==
    \A index \in 1..3 :
        LET query == quickActions(variant)[index]
            viaQuick == IF quickActionEnabled
                        THEN afterSend(query, inputValue) ELSE current
            viaInput == IF inputEnabled
                        THEN afterSend(undefined, query) ELSE current
        IN  viaQuick = viaInput

-----------------------------------------------------------------------------
(* Properties of the resolver, read off the conversation: a user message and *)
(* the bot message that answers it                                           *)

\* the places of the conversation where a user message is followed by its reply
Exchanges ==
    {k \in 1..(Len(messages) - 1) :
        messages[k].sender = "user" /\ messages[k + 1].sender = "bot"}

\* the places of a text where 'N' or 'n' is followed by three digits
CodePositions(text) ==
    {p \in 1..(Len(text) - 3) :
        text[p] \in {"n", "N"} /\ \A d \in 1..3 : text[p + d] \in Digits}

\* the order code at such a place, upper-cased
CodeAt(text, p) == <<"N", text[p + 1], text[p + 2], text[p + 3]>>

FirstCodePosition(text) ==
    CHOOSE p \in CodePositions(text) : \A q \in CodePositions(text) : p <= q

FoundReplyFor(code) ==
    Reply(foundTemplate, code, droneLocations(code).address,
          droneLocations(code).eta, droneLocations(code).status)

NotFoundReplyFor(code) == Reply(notFoundTemplate, code, "", 0, "")

\* C7 as stated: in the nibbly variant an input that contains, anywhere, an
\* order code of the tracking table gets the tracking-found reply of such a
\* code, whatever else it contains.
C7_AnyKnownCodeWins ==
    \A k \in Exchanges :
        LET text  == messages[k].text
            known == {p \in CodePositions(text) : CodeAt(text, p) \in droneKeys}
        IN  (variant = "nibbly" /\ known # {})
            => \E p \in known : messages[k + 1].text = FoundReplyFor(CodeAt(text, p))

\* C7 amended: in the nibbly variant an input whose first (leftmost) order
\* code, upper-cased, is in the tracking table gets the tracking-found reply
\* for that code (its location, ETA and status), also when the input contains
\* a trigger phrase or a fallback keyword.
C7_FirstKnownCodeWins ==
    \A k \in Exchanges :
        LET text == messages[k].text
        IN  (/\ variant = "nibbly"
             /\ CodePositions(text) # {}
             /\ CodeAt(text, FirstCodePosition(text)) \in droneKeys)
            => messages[k + 1].text = FoundReplyFor(CodeAt(text, FirstCodePosition(text)))

\* C7 witness: "hello" (a table trigger) before a lower-case known code
C7_TriggerAndKnownCode ==
    /\ variant = "nibbly"
    /\ Len(messages) = 3
    /\ messages[2].sender = "user"
    /\ messages[2].text = <<"h","e","l","l","o","n","0","0","1">>
    /\ messages[3].sender = "bot"
    /\ messages[3].text = FoundReplyFor(<<"N","0","0","1">>)

\* C8: in the nibbly variant an input whose first order code is not in the
\* tracking table gets the not-found reply naming that code, whatever else
\* the input contains (a trigger, a keyword, a later known code).
C8_FirstUnknownCodeNotFound ==
    \A k \in Exchanges :
        LET text == messages[k].text
        IN  (/\ variant = "nibbly"
             /\ CodePositions(text) # {}
             /\ CodeAt(text, FirstCodePosition(text)) \notin droneKeys)
            => messages[k + 1].text = NotFoundReplyFor(CodeAt(text, FirstCodePosition(text)))

\* C8 witness: an unknown code followed by a known one
C8_UnknownThenKnownCode ==
    /\ variant = "nibbly"
    /\ Len(messages) = 3
    /\ messages[2].sender = "user"
    /\ messages[2].text = <<"n","9","9","9","N","0","0","1">>
    /\ messages[3].sender = "bot"
    /\ messages[3].text = NotFoundReplyFor(<<"N","9","9","9">>)

\* the table entries whose trigger phrase is a substring of the text
TriggersIn(v, text) ==
    {i \in 1..Len(botResponses(v)) : includes(text, botResponses(v)[i].key)}

\* C9: an input without an order code that contains two or more trigger
\* phrases of the table gets the reply of the one that is earliest in the
\* table, wherever the triggers stand in the input.
C9_EarliestTriggerWins ==
    \A k \in Exchanges :
        LET text     == messages[k].text
            triggers == TriggersIn(variant, text)
        IN  (CodePositions(text) = {} /\ Cardinality(triggers) >= 2)
            => \E i \in triggers :
                  /\ \A j \in triggers : i <= j
                  /\ messages[k + 1].text = Literal(botResponses(variant)[i].response)

\* the hard-coded keyword conditions of a variant
KeywordCondition(v, message) ==
    IF v = "nibbly"
    THEN \/ /\ includes(message, <<"d","r","o","n","e">>)
            /\ \/ includes(message, <<"w","h","e","r","e">>)
               \/ includes(message, <<"l","o","c","a","t","i","o","n">>)
         \/ includes(message, <<"e","t","a">>)
         \/ includes(message, <<"w","h","e","n">>)
         \/ includes(message, <<"a","r","r","i","v","e">>)
         \/ includes(message, <<"t","h","a","n","k">>)
         \/ includes(message, <<"b","y","e">>)
    ELSE \/ /\ includes(message, <<"o","r","d","e","r">>)
            /\ includes(message, <<"s","t","a","t","u","s">>)
         \/ includes(message, <<"c","a","n","c","e","l">>)
         \/ includes(message, <<"t","h","a","n","k">>)
         \/ includes(message, <<"b","y","e">>)

\* nothing matches the lower-cased input
NothingMatched(v, message) ==
    /\ v = "nibbly" => CodePositions(message) = {}
    /\ TriggersIn(v, message) = {}
    /\ ~KeywordCondition(v, message)

DefaultReply(v) == Literal(IF v = "nibbly" THEN defaultNibbly ELSE defaultGeneric)

xyzzy ==
    <<"x","y","z","z","y"," ","c","o","m","p","l","e","t","e","l","y"," ",
      "u","n","r","e","l","a","t","e","d"," ","t","e","x","t">>

\* C10: every input gets a reply, and the reply is the default one exactly
\* when the lower-cased input holds no order code (nibbly), no trigger of the
\* table and meets no keyword condition; "xyzzy completely unrelated text"
\* gets the default reply in both variants.
C10_DefaultIffNothingMatched ==
    \A k \in Exchanges :
        LET text == messages[k].text
        IN  /\ (messages[k + 1].text = DefaultReply(variant))
               <=> NothingMatched(variant, toLowerCase(text))
            /\ text = xyzzy => messages[k + 1].text = DefaultReply(variant)

\* C10 witness: the unrelated text of the claim has been answered by default
C10_UnrelatedTextAnswered ==
    /\ Len(messages) = 3
    /\ messages[2].sender = "user"
    /\ messages[2].text = xyzzy
    /\ messages[3].sender = "bot"
    /\ messages[3].text = DefaultReply(variant)

-----------------------------------------------------------------------------
(* Properties of the conversation as a whole *)

\* two messages are the same message
SameMessage(m1, m2) ==
    /\ m1.id = m2.id
    /\ m1.sender = m2.sender
    /\ m1.timestamp = m2.timestamp
    /\ m1.text = m2.text

\* the conversation before a step is a prefix of the conversation after it
ConversationExtended ==
    /\ Len(messages') >= Len(messages)
    /\ \A k \in 1..Len(messages) : SameMessage(messages'[k], messages[k])

\* C11: the conversation starts with exactly one bot greeting, the typing flag
\* false and the input buffer empty, and it is append-only: every step keeps
\* the conversation it found as a prefix of the one it leaves (nothing is
\* removed, reordered or modified, so the greeting stays first).
C11_SeededAndAppendOnly ==
    /\ Len(messages) = 1
    /\ SameMessage(messages[1], greeting(variant))
    /\ messages[1].sender = "bot"
    /\ isTyping = FALSE
    /\ inputValue = <<>>
    /\ [][ConversationExtended]_vars

\* C11 witness: a full conversation, user and bot messages after the greeting
C11_GrownConversation ==
    /\ Len(messages) = MaxMessages
    /\ SameMessage(messages[1], greeting(variant))
    /\ NumFrom("user") >= 2
    /\ NumFrom("bot") >= 2

\* the messages of one sender, in conversation order
MessagesFrom(sender) ==
    SelectSeq(messages, LAMBDA m : m.sender = sender)

\* C12: replies are paired with submissions in order: the k-th bot message
\* after the greeting is the reply to the text of the k-th user message, as
\* that text was when it was submitted, and there are never more bot messages
\* than user messages plus the greeting.
C12_RepliesPairedInOrder ==
    LET users == MessagesFrom("user")
        bots  == Tail(MessagesFrom("bot"))
    IN  /\ Len(bots) <= Len(users)
        /\ \A k \in 1..Len(bots) :
              bots[k].text = getBotResponse(variant, users[k].text)

\* C12 witness: two submissions were pending together, both are answered, the
\* two replies differ, and the input buffer has been edited since
C12_TwoOverlappingAnswered ==
    /\ Len(messages) = 5
    /\ messages[2].sender = "user"
    /\ messages[3].sender = "user"
    /\ messages[4].sender = "bot"
    /\ messages[5].sender = "bot"
    /\ messages[4].text # messages[5].text
    /\ messages[4].text = getBotResponse(variant, messages[2].text)
    /\ inputValue # <<>>

\* the table entries stored under exactly this key
EntriesUnder(v, key) ==
    {i \in 1..Len(botResponses(v)) : botResponses(v)[i].key = key}

\* the queries of the quick-action shortcuts
QuickQueries(v) == {quickActions(v)[index] : index \in 1..3}

\* C13: for every quick-action shortcut whose query string is a key of the
\* table, the bot reply appended for that shortcut is the table reply stored
\* under that key.
C13_ShortcutGetsItsTableReply ==
    LET users == MessagesFrom("user")
        bots  == Tail(MessagesFrom("bot"))
    IN  \A k \in 1..Len(bots) :
            (users[k].text \in QuickQueries(variant))
            => \A i \in EntriesUnder(variant, users[k].text) :
                  bots[k].text = Literal(botResponses(variant)[i].response)

\* a step that changes one of the two widget flags
WidgetFlagStep == isOpen' # isOpen \/ isMinimized' # isMinimized

\* C14: open, close and toggle-minimize each change only their own flag: a
\* step that changes isOpen or isMinimized changes exactly one of the two and
\* leaves the conversation, the typing flag, the input buffer and the pending
\* replies as they are; so closing and reopening keeps the minimized flag.
C14_WidgetFlagsOnly ==
    [][WidgetFlagStep =>
          /\ (isOpen' = isOpen \/ isMinimized' = isMinimized)
          /\ Len(messages') = Len(messages)
          /\ \A k \in 1..Len(messages) : SameMessage(messages'[k], messages[k])
          /\ UNCHANGED <<isTyping, inputValue, timers>>]_vars

\* C14 witness: the widget was minimized and closed with a reply pending and
\* a draft in the input buffer
C14_ClosedMinimizedWithDraft ==
    /\ variant = "nibbly"
    /\ ~isOpen
    /\ isMinimized
    /\ timers # <<>>
    /\ inputValue # <<>>
    /\ Len(messages) > 1

=============================================================================
